---- MODULE Spec2Model ----
(***************************************************************************)
(* Voxel-based 3D reconstruction (src/main.py): the projection look-up     *)
(* table built by four worker threads (create_lut_parallel), the per-voxel *)
(* multi-view visibility test (check_voxel_visibility) and the driver that *)
(* resolves every voxel and writes parameters/voxels.txt                   *)
(* (check_visibility_and_reconstruct).                                     *)
(*                                                                         *)
(* Numbers.  The code computes voxel coordinates and projected points in   *)
(* floating point.  The model keeps them exact: a voxel coordinate is a    *)
(* numerator over the common denominator GridDen, a projected coordinate   *)
(* is a pair <<numerator, denominator>>.  int() of a float is modelled by  *)
(* what it does, truncation toward zero (IntTrunc), not by the identity.   *)
(***************************************************************************)
EXTENDS Integers, Sequences, FiniteSets, TLC

\* Bounds of the model: the grid of the code has 200 samples per axis over
\* [-1024, 1024] x [-1024, 1024] x [0, 2048].
NumSamples == 2
GridHalf == 24

\* int(x / 16), int(y / 16), int(z / 16)
VoxelSize == 16

\* range(1, 5)
CamIds == 1..4

\* Values of their own kind: Python's None, and a camera configuration file
\* that cannot be loaded.
None == [tag |-> "None"]
Malformed == [tag |-> "Malformed"]

VARIABLES
    cams,            \* parameters/cam{id}/camera_properties.xml, per camera id
    silhouette_masks,\* argument: one mask per camera, position cam_id - 1
    coloured_images, \* argument: one colour image per camera
    voxels,          \* the voxel grid (line 195)
    submitted,       \* number of futures created so far (line 134)
    futures,         \* per camera id: state and result of its future
    collected,       \* number of futures whose result() the main thread took
    lut,             \* the dict lut, as its items in insertion order
    pc,              \* position of the main thread
    err,             \* the exception in flight / propagated, or None
    voxel_index,     \* loop variable of line 201 (number of voxels resolved)
    colour,          \* last value returned by check_voxel_visibility (line 204)
    visible_points,  \* line 200 / 211
    file             \* parameters/voxels.txt: whether opened, and its lines

vars == <<cams, silhouette_masks, coloured_images, voxels, submitted, futures,
          collected, lut, pc, err, voxel_index, colour, visible_points, file>>

inputs == <<cams, silhouette_masks, coloured_images>>

----------------------------------------------------------------------------
(* Arithmetic *)

Abs(a) == IF a < 0 THEN -a ELSE a

\* int(a / b) for a float quotient: truncation toward zero (b # 0).
IntTrunc(a, b) ==
    IF (a >= 0) = (b > 0) THEN Abs(a) \div Abs(b) ELSE -(Abs(a) \div Abs(b))

\* A colour is a record of its three channels.
RGB(r, g, b) == [r |-> r, g |-> g, b |-> b]

RECURSIVE SumChannel(_, _)
SumChannel(colors, ch) ==
    IF colors = <<>> THEN 0
    ELSE Head(colors)[ch] + SumChannel(Tail(colors), ch)

\* np.mean(colors, axis=0).astype(int)
MeanColor(colors) ==
    RGB(IntTrunc(SumChannel(colors, "r"), Len(colors)),
        IntTrunc(SumChannel(colors, "g"), Len(colors)),
        IntTrunc(SumChannel(colors, "b"), Len(colors)))

----------------------------------------------------------------------------
(* The voxel grid, lines 192-195 *)

\* Common denominator of the grid coordinates: np.linspace(a, b, num) yields
\* a + j * (b - a) / (num - 1), j = 0 .. num - 1.
GridDen == NumSamples - 1

\* np.linspace(start, stop, num): the numerators over GridDen.
Linspace(start, stop) ==
    [j \in 1..NumSamples |-> start * GridDen + (j - 1) * (stop - start)]

x_range == Linspace(-GridHalf, GridHalf)
y_range == Linspace(-GridHalf, GridHalf)
z_range == Linspace(0, 2 * GridHalf)

\* np.array(np.meshgrid(x_range, y_range, z_range)).T.reshape(-1, 3):
\* row (k * nx + j) * ny + i is (x[j], y[i], z[k]); y runs fastest, z slowest.
VoxelGrid ==
    [n \in 1..(NumSamples * NumSamples * NumSamples) |->
        LET r == n - 1
            i == r % NumSamples
            j == (r \div NumSamples) % NumSamples
            k == r \div (NumSamples * NumSamples)
        IN  <<x_range[j + 1], y_range[i + 1], z_range[k + 1]>>]

\* A variant that floors (x // 16) where the code truncates.
GridIndexFloor(xn) == xn \div (VoxelSize * GridDen)

\* int(x / 16) of a grid coordinate with numerator xn.
GridIndex(xn) == IntTrunc(xn, VoxelSize * GridDen)

----------------------------------------------------------------------------
(* Camera models and projection (helper_functions) *)

\* A camera model: focal length f and principal point (cx, cy) of the
\* intrinsic matrix, translation (0, 0, tz); rotation is the identity and the
\* distortion coefficients are zero.  Malformed stands for a configuration
\* that parse_camera_config_from_file cannot load.
CamCentre == [f |-> 1, cx |-> 1, cy |-> 1, tz |-> 48]
CamLeft   == [f |-> 1, cx |-> -1, cy |-> 1, tz |-> 48]
CamZero   == [f |-> 1, cx |-> 0, cy |-> 0, tz |-> 48]
CamFar    == [f |-> 2, cx |-> 1, cy |-> 0, tz |-> 48]

\* parse_camera_config_from_file(config_path) raises for a malformed file.
ParseRaises(cam) == cam = Malformed

\* Pinhole projection of one voxel: u = cx + f * X / (Z + tz), likewise v,
\* kept as <<numerator, denominator>> pairs (denominator > 0).
ProjectPoint(v, cam) ==
    LET den == v[3] + cam.tz * GridDen
    IN  <<<<cam.cx * den + cam.f * v[1], den>>,
          <<cam.cy * den + cam.f * v[2], den>>>>

\* project_to_2d(voxels, camera_matrix, dist_coeffs, rvec, tvec): one 2D point
\* per voxel, position i for voxel i.
project_to_2d(vs, cam) == [i \in 1..Len(vs) |-> ProjectPoint(vs[i], cam)]

----------------------------------------------------------------------------
(* Images *)

\* A numpy image of shape (h, w) is a record of its shape (shape[0] = h rows,
\* shape[1] = w columns) and its pixels, px[<<y, x>>] the value at [y, x].
\* The index pairs <<y, x>> of an image of shape (h, w):
Pixels(h, w) == (0..(h - 1)) \X (0..(w - 1))


----------------------------------------------------------------------------
(* check_voxel_visibility, lines 143-176 *)

\* The IndexError numpy and list indexing raise for an index out of range.
IndexError == [tag |-> "IndexError"]

\* A variant that reads black where the image has no such pixel.
ReadColourDefault(image, x, y) ==
    IF y < image.shape[1] /\ x < image.shape[2] THEN image.px[<<y, x>>]
    ELSE RGB(0, 0, 0)

\* line 166: color_images[adjusted_cam_id][y, x] with y, x >= 0: the pixel's
\* colour, or IndexError outside the array.
ReadColour(image, x, y) ==
    IF y < image.shape[1] /\ x < image.shape[2] THEN image.px[<<y, x>>]
    ELSE IndexError

\* line 163: 0 <= x < mask.shape[1] and 0 <= y < mask.shape[0]
InBounds(mask, x, y) ==
    /\ 0 <= x /\ x < mask.shape[2]
    /\ 0 <= y /\ y < mask.shape[1]

\* line 164: silhouette_masks[adjusted_cam_id][y, x] == 255
IsForeground(mask, x, y) == mask.px[<<y, x>>] = 255

\* line 161: x, y = int(point[0]), int(point[1])
PixelOf(point) ==
    <<IntTrunc(point[1][1], point[1][2]), IntTrunc(point[2][1], point[2][2])>>

\* lines 172-176: the value returned once the loop over the cameras ends
AfterLoop(colors) == IF colors # <<>> THEN MeanColor(colors) ELSE None

\* The loop of lines 158-170 from the k-th item of the LUT on, with the
\* colours collected so far.  The result is a colour, None, or IndexError
\* when an index is out of range.
RECURSIVE VisibilityLoop(_, _, _, _, _, _)
VisibilityLoop(k, colors, i, l, masks, images) ==
    IF k > Len(l) THEN AfterLoop(colors)
    ELSE
        LET adjusted_cam_id == l[k].cam_id - 1
            points_2d == l[k].points_2d
        IN  IF i + 1 > Len(points_2d) THEN IndexError
            ELSE
              LET pix == PixelOf(points_2d[i + 1])
                  x == pix[1]
                  y == pix[2]
                  mask == masks[adjusted_cam_id + 1]
                  image == images[adjusted_cam_id + 1]
              IN  IF InBounds(mask, x, y)
                  THEN IF IsForeground(mask, x, y)
                       THEN LET color == ReadColour(image, x, y)
                            IN  IF color = IndexError THEN IndexError
                                ELSE VisibilityLoop(k + 1,
                                         Append(colors, color),
                                         i, l, masks, images)
                       ELSE None
                  ELSE VisibilityLoop(k + 1, colors, i, l, masks, images)

\* check_voxel_visibility(voxel_index, lut, silhouette_masks, color_images)
check_voxel_visibility(i, l, masks, images) ==
    VisibilityLoop(1, <<>>, i, l, masks, images)

----------------------------------------------------------------------------
(* create_lut_parallel, lines 114-140 *)

\* A variant in which the worker returns the id it reads from the submitting
\* loop's variable when it runs, instead of the one it received.
process_camera_shared_id(cam_id) ==
    [cam_id |-> submitted, points_2d |-> project_to_2d(voxels, cams[cam_id])]

\* A variant in which the worker returns the 0-based list position.
process_camera_zero_based(cam_id) ==
    [cam_id |-> cam_id - 1, points_2d |-> project_to_2d(voxels, cams[cam_id])]

\* process_camera(cam_id), lines 124-130: the value the worker returns.
process_camera(cam_id) ==
    [cam_id |-> cam_id, points_2d |-> project_to_2d(voxels, cams[cam_id])]

\* lut[cam_id] = points_2d on a dict kept as its items in insertion order:
\* an existing key keeps its place and takes the new value.
DictSet(d, key, val) ==
    IF \E n \in 1..Len(d) : d[n].cam_id = key
    THEN [n \in 1..Len(d) |->
            IF d[n].cam_id = key THEN [cam_id |-> key, points_2d |-> val]
            ELSE d[n]]
    ELSE Append(d, [cam_id |-> key, points_2d |-> val])

\* A variant that swallows the worker's exception.
WithExitSwallow(e) == "resolve"

\* The with block's exit, line 133: after the pool's shutdown(wait=True) an
\* exception in flight propagates out of create_lut_parallel, else line 140
\* returns the lut.
WithExit(e) == IF e = None THEN "resolve" ELSE "error"

\* create_lut, lines 89-111: the sequential build.
create_lut(vs, cs) ==
    [c \in CamIds |-> [cam_id |-> c, points_2d |-> project_to_2d(vs, cs[c])]]

----------------------------------------------------------------------------
(* check_visibility_and_reconstruct, lines 180-216 *)

\* line 211: [ix, iy, iz, *colour]
VoxelRecord(v, col) ==
    <<GridIndex(v[1]), GridIndex(v[2]), GridIndex(v[3]), col.r, col.g, col.b>>

\* A variant of the loop that stops one voxel early.
LoopRunningOffByOne == voxel_index < Len(voxels) - 1

\* line 201: range(len(voxels))
LoopRunning == voxel_index < Len(voxels)

\* lines 192-195
GenerateGrid ==
    /\ pc = "grid"
    /\ voxels' = VoxelGrid
    /\ pc' = "submit"
    /\ UNCHANGED <<inputs, submitted, futures, collected, lut, err,
                   voxel_index, colour, visible_points, file>>

\* line 134, one executor.submit(process_camera, cam_id) of the comprehension
Submit ==
    /\ pc = "submit"
    /\ submitted < 4
    /\ submitted' = submitted + 1
    /\ futures' = [futures EXCEPT ![submitted + 1].state = "pending"]
    /\ pc' = IF submitted + 1 = 4 THEN "collect" ELSE "submit"
    /\ UNCHANGED <<inputs, voxels, collected, lut, err, voxel_index, colour,
                   visible_points, file>>

\* A pool thread runs process_camera(cam_id) to its return.
WorkerReturn(c) ==
    /\ futures[c].state = "pending"
    /\ ~ParseRaises(cams[c])
    /\ futures' = [futures EXCEPT ![c] = [state |-> "done",
                                           result |-> process_camera(c)]]
    /\ UNCHANGED <<inputs, voxels, submitted, collected, lut, pc, err,
                   voxel_index, colour, visible_points, file>>

\* A pool thread runs process_camera(cam_id) and line 126 raises.
WorkerRaise(c) ==
    /\ futures[c].state = "pending"
    /\ ParseRaises(cams[c])
    /\ futures' = [futures EXCEPT ![c] = [state |-> "raised", result |-> None]]
    /\ UNCHANGED <<inputs, voxels, submitted, collected, lut, pc, err,
                   voxel_index, colour, visible_points, file>>

\* lines 135-138: future.result() of the next future in submission order
\* returns, and the result is stored.
CollectResult ==
    /\ pc = "collect"
    /\ collected < 4
    /\ futures[collected + 1].state = "done"
    /\ LET r == futures[collected + 1].result
       IN  lut' = DictSet(lut, r.cam_id, r.points_2d)
    /\ collected' = collected + 1
    /\ pc' = IF collected + 1 = 4 THEN "shutdown" ELSE "collect"
    /\ UNCHANGED <<inputs, voxels, submitted, futures, err, voxel_index,
                   colour, visible_points, file>>

\* line 136: future.result() re-raises the worker's exception, which leaves
\* the loop and enters the with block's exit.
CollectRaise ==
    /\ pc = "collect"
    /\ collected < 4
    /\ futures[collected + 1].state = "raised"
    /\ err' = [tag |-> "ConfigError", cam_id |-> collected + 1]
    /\ pc' = "shutdown"
    /\ UNCHANGED <<inputs, voxels, submitted, futures, collected, lut,
                   voxel_index, colour, visible_points, file>>

\* ThreadPoolExecutor.__exit__: shutdown(wait=True) returns once every
\* submitted task has finished; then line 140 / 198-200, or the exception
\* propagates out of check_visibility_and_reconstruct.
Shutdown ==
    /\ pc = "shutdown"
    /\ \A c \in CamIds : futures[c].state \in {"done", "raised"}
    /\ pc' = WithExit(err)
    /\ UNCHANGED <<inputs, voxels, submitted, futures, collected, lut, err,
                   voxel_index, colour, visible_points, file>>

\* lines 201-211: one iteration of the loop over the voxels.
ResolveVoxel ==
    /\ pc = "resolve"
    /\ LoopRunning
    /\ LET v == voxels[voxel_index + 1]
           c == check_voxel_visibility(voxel_index, lut, silhouette_masks,
                                       coloured_images)
       IN  IF c = IndexError
           THEN /\ err' = IndexError
                /\ pc' = "error"
                /\ UNCHANGED <<voxel_index, colour, visible_points>>
           ELSE /\ colour' = c
                /\ visible_points' =
                       IF c # None
                       THEN Append(visible_points, VoxelRecord(v, c))
                       ELSE visible_points
                /\ voxel_index' = voxel_index + 1
                /\ UNCHANGED <<pc, err>>
    /\ UNCHANGED <<inputs, voxels, submitted, futures, collected, lut, file>>

\* lines 213-216: the file is opened and one line per visible point written.
WriteFile ==
    /\ pc = "resolve"
    /\ ~LoopRunning
    /\ file' = [opened |-> TRUE, lines |-> visible_points]
    /\ pc' = "done"
    /\ UNCHANGED <<inputs, voxels, submitted, futures, collected, lut, err,
                   voxel_index, colour, visible_points>>

Next ==
    \/ GenerateGrid
    \/ Submit
    \/ \E c \in CamIds : WorkerReturn(c)
    \/ \E c \in CamIds : WorkerRaise(c)
    \/ CollectResult
    \/ CollectRaise
    \/ Shutdown
    \/ ResolveVoxel
    \/ WriteFile

----------------------------------------------------------------------------
(* Inputs *)

\* Silhouette masks of shape (2, 2): 255 is foreground, anything else is not.
MaskFg == [shape |-> <<2, 2>>, px |-> [p \in Pixels(2, 2) |-> 255]]
MaskBg == [shape |-> <<2, 2>>, px |-> [p \in Pixels(2, 2) |-> 0]]
MaskMixed ==
    [shape |-> <<2, 2>>,
     px |-> [p \in Pixels(2, 2) |->
                IF p[1] = 0 THEN 255 ELSE IF p[2] = 0 THEN 128 ELSE 0]]

MaskSet == {MaskFg, MaskBg, MaskMixed}

\* The four masks: one camera's mask is chosen freely, the other three share
\* a mask.
MaskChoices ==
    {[n \in 1..4 |-> IF n = d THEN m1 ELSE m2] :
        d \in 1..4, m1 \in MaskSet, m2 \in MaskSet}

UniformMasks == {[n \in 1..4 |-> m] : m \in {MaskFg, MaskMixed}}

\* Colour images, position n for camera id n: every pixel (10 n, 0, 0);
ImagesFlat ==
    [n \in 1..4 |->
        [shape |-> <<2, 2>>, px |-> [p \in Pixels(2, 2) |-> RGB(10 * n, 0, 0)]]]

\* The colour of camera n's graded image at [y, x].
Graded(n, y, x) == RGB(n * n + x, 200 + y, 3 * n + 2 * x + y)

\* colours that vary with the pixel and whose sums are not multiples of 4;
ImagesGrad ==
    [n \in 1..4 |->
        [shape |-> <<2, 2>>,
         px |-> [p \in Pixels(2, 2) |-> Graded(n, p[1], p[2])]]]

\* the same with camera 2's image smaller and camera 3's image larger than
\* their masks (a dimension mismatch).
ImagesMismatch ==
    [n \in 1..4 |->
        LET h == IF n = 2 THEN 1 ELSE 2
            w == IF n = 3 THEN 3 ELSE 2
        IN  [shape |-> <<h, w>>,
             px |-> [p \in Pixels(h, w) |-> Graded(n, p[1], p[2])]]]

\* Camera configurations: every assignment of these models to the four ids,
CamChoicesAll == [CamIds -> {CamCentre, CamLeft, CamZero, Malformed}]

\* and a smaller family with one unreadable configuration.
CamChoicesFew ==
    [CamIds -> {CamCentre, CamLeft}]
        \cup {[c \in CamIds |-> IF c = d THEN CamFar ELSE CamCentre] :
                 d \in CamIds}
        \cup {[c \in CamIds |-> CamZero], [c \in CamIds |-> CamFar]}
        \cup {[c \in CamIds |-> IF c = 3 THEN Malformed ELSE CamCentre]}

\* parameters/voxels.txt before line 213 opens it.
Unopened == [opened |-> FALSE, lines |-> <<>>]

\* The state on entry to check_visibility_and_reconstruct.
InitWith(CamChoices, Masks, Images) ==
    /\ cams \in CamChoices
    /\ silhouette_masks \in Masks
    /\ coloured_images \in Images
    /\ voxels = <<>>
    /\ submitted = 0
    /\ futures = [c \in CamIds |-> [state |-> "unsubmitted", result |-> None]]
    /\ collected = 0
    /\ lut = <<>>
    /\ pc = "grid"
    /\ err = None
    /\ voxel_index = 0
    /\ colour = None
    /\ visible_points = <<>>
    /\ file = Unopened

Init ==
    \/ InitWith(CamChoicesAll, UniformMasks, {ImagesFlat, ImagesGrad})
    \/ InitWith(CamChoicesFew, MaskChoices,
                {ImagesFlat, ImagesGrad, ImagesMismatch})

Spec == Init /\ [][Next]_vars

----------------------------------------------------------------------------
(* What the properties speak of *)

\* The LUT entry of voxel i (counted from 0) stored under camera id c.
LutPoint(c, i) ==
    LET n == CHOOSE m \in 1..Len(lut) : lut[m].cam_id = c
    IN  lut[n].points_2d[i + 1]

\* The truncated pixel (x, y) of voxel i in camera c.
PixelX(c, i) == PixelOf(LutPoint(c, i))[1]
PixelY(c, i) == PixelOf(LutPoint(c, i))[2]

\* The pixel lies inside [0, width_c) x [0, height_c) of camera c's mask.
InsideMask(c, i) ==
    /\ PixelX(c, i) \in 0..(silhouette_masks[c].shape[2] - 1)
    /\ PixelY(c, i) \in 0..(silhouette_masks[c].shape[1] - 1)

\* Camera c sees voxel i: in bounds and on a foreground (255) pixel.
SeenBy(c, i) ==
    /\ InsideMask(c, i)
    /\ silhouette_masks[c].px[<<PixelY(c, i), PixelX(c, i)>>] = 255

\* The pixel lies inside camera c's colour image.
InsideColourImage(c, i) ==
    /\ PixelX(c, i) \in 0..(coloured_images[c].shape[2] - 1)
    /\ PixelY(c, i) \in 0..(coloured_images[c].shape[1] - 1)

\* The colour of camera c at the voxel's pixel.
ColourAt(c, i) == coloured_images[c].px[<<PixelY(c, i), PixelX(c, i)>>]

\* Per channel, the mean of the four cameras' colours, truncated.
ChannelMeanOfFour(i, ch) ==
    (ColourAt(1, i)[ch] + ColourAt(2, i)[ch] + ColourAt(3, i)[ch]
        + ColourAt(4, i)[ch]) \div 4

MeanOfFour(i) ==
    RGB(ChannelMeanOfFour(i, "r"), ChannelMeanOfFour(i, "g"),
        ChannelMeanOfFour(i, "b"))

\* check_voxel_visibility has returned for voxel voxel_index - 1, and colour
\* holds what it returned.
Returned == pc \in {"resolve", "done"} /\ voxel_index > 0

LastVoxel == voxel_index - 1

----------------------------------------------------------------------------
(* Properties of the visibility test *)

\* C1: check_voxel_visibility returns a colour if and only if every one of
\* the four cameras has the voxel's truncated pixel inside its image on a
\* silhouette pixel equal to 255; otherwise it returns None.
C1_VisibleIffSeenByEveryCamera ==
    Returned =>
        ((colour # None) <=> (\A c \in 1..4 : SeenBy(c, LastVoxel)))

\* C2: a step that adds a voxel to visible_points adds a voxel whose pixel is
\* inside the image of every camera: a voxel out of bounds in some camera is
\* never added, whatever the other cameras show.
C2_OutOfBoundsVoxelNeverAdded ==
    [][visible_points' # visible_points
          => \A c \in 1..4 : InsideMask(c, voxel_index)]_vars

\* A camera whose silhouette mask holds no 255 pixel.
AllBackground(n) ==
    \A p \in DOMAIN silhouette_masks[n].px : silhouette_masks[n].px[p] # 255

\* C3: if one camera's mask is all background, no voxel is visible:
\* visible_points stays empty and the written file has no records.
C3_AllBackgroundCameraYieldsNothing ==
    (\E n \in 1..4 : AllBackground(n))
        => visible_points = <<>> /\ file.lines = <<>>

\* C4: a returned colour is the truncated per-channel mean of exactly four
\* values, the four cameras' pixel colours at the voxel's pixels.
C4_ColourIsMeanOfFourCameras ==
    (Returned /\ colour # None) =>
        /\ \A c \in 1..4 : InsideMask(c, LastVoxel)
        /\ \A c \in 1..4 : InsideColourImage(c, LastVoxel)
        /\ colour = MeanOfFour(LastVoxel)

----------------------------------------------------------------------------
(* Output indices *)

\* q is x / 16 truncated toward zero, for the coordinate with numerator xn:
\* |q| is the largest integer with |q| * 16 <= |x|, and q has the sign of x.
IsTruncatedQuotient(q, xn) ==
    /\ Abs(q) * VoxelSize * GridDen <= Abs(xn)
    /\ Abs(xn) < (Abs(q) + 1) * VoxelSize * GridDen
    /\ (q > 0 => xn > 0)
    /\ (q < 0 => xn < 0)

LastRecord == visible_points[Len(visible_points)]

\* C5: the record of a visible voxel (x, y, z) starts with x / 16, y / 16 and
\* z / 16 truncated toward zero, whatever its colour and the other voxels;
\* (32, -16, 48) gives (2, -1, 3).
C5_IndicesTruncateTowardZero ==
    /\ (Returned /\ colour # None) =>
          \A a \in 1..3 :
              IsTruncatedQuotient(LastRecord[a], voxels[voxel_index][a])
    /\ <<GridIndex(32 * GridDen), GridIndex(-16 * GridDen),
         GridIndex(48 * GridDen)>> = <<2, -1, 3>>

\* A visible voxel with a negative x that is no multiple of 16: truncation
\* gives -1 where flooring would give -2.
C5_Witness ==
    /\ Returned /\ colour # None
    /\ voxels[voxel_index][1] = -24 * GridDen
    /\ LastRecord[1] = -1

----------------------------------------------------------------------------
(* The look-up table under concurrency *)

\* create_lut_parallel has returned its lut.
LutReturned ==
    \/ pc \in {"resolve", "done"}
    \/ pc = "error" /\ err = IndexError

\* C7: when create_lut_parallel returns, whatever the workers' interleaving,
\* the lut has exactly the keys 1..4, lut[c] is the projection of the voxel
\* grid with camera c's own parameters, one point per voxel, the voxel grid
\* is as generated, and the lut equals that of the sequential create_lut.
C7_LutBuiltPerCamera ==
    /\ pc # "grid" => voxels = VoxelGrid
    /\ \A c \in 1..4 :
          futures[c].state = "done" => futures[c].result.cam_id = c
    /\ LutReturned =>
          /\ Len(lut) = 4
          /\ \A c \in 1..4 : \E n \in 1..4 : lut[n].cam_id = c
          /\ \A n \in 1..4 :
                /\ Len(lut[n].points_2d) = Len(voxels)
                /\ \A i \in 1..Len(voxels) :
                      lut[n].points_2d[i]
                          = ProjectPoint(voxels[i], cams[lut[n].cam_id])
          /\ lut = create_lut(voxels, cams)

\* The lut is returned for cameras with different parameters.
C7_Witness ==
    /\ pc = "resolve"
    /\ Len(lut) = 4
    /\ cams[1] # cams[2] /\ cams[2] # cams[3] /\ cams[3] # cams[4]

\* The records of the voxels from index i on, computed from the inputs alone
\* with the sequentially built lut.
RECURSIVE ExpectedFrom(_)
ExpectedFrom(i) ==
    IF i >= Len(VoxelGrid) THEN <<>>
    ELSE LET c == check_voxel_visibility(i, create_lut(VoxelGrid, cams),
                                          silhouette_masks, coloured_images)
         IN  IF c \in {None, IndexError} THEN ExpectedFrom(i + 1)
             ELSE <<VoxelRecord(VoxelGrid[i + 1], c)>> \o ExpectedFrom(i + 1)

WellFormed == \A c \in CamIds : ~ParseRaises(cams[c])

\* The exception a run ends with, from the inputs alone.
ExpectedError ==
    IF WellFormed THEN IndexError
    ELSE [tag |-> "ConfigError",
          cam_id |-> CHOOSE c \in CamIds :
                        /\ ParseRaises(cams[c])
                        /\ \A d \in 1..(c - 1) : ~ParseRaises(cams[d])]

\* C6: the outcome is a function of the camera models, masks and images
\* alone: every interleaving and completion order of the four workers ends in
\* the same sequence of records, in ascending voxel-index order (or in the
\* same exception with no file written).
C6_OutputIndependentOfScheduling ==
    /\ pc = "done" =>
          WellFormed /\ file.opened /\ file.lines = ExpectedFrom(0)
    /\ pc = "error" => err = ExpectedError /\ ~file.opened

\* A run that wrote records for cameras with different parameters.
C6_Witness ==
    /\ pc = "done"
    /\ Len(file.lines) >= 2
    /\ cams[1] # cams[2] /\ cams[3] # cams[4]

\* C8: if the configuration of any camera cannot be loaded, the pass never
\* resolves a voxel, never opens the output file and never continues with
\* the luts of the remaining cameras; once the with block is left the error
\* has propagated.
C8_ConfigurationErrorIsFatal ==
    (\E c \in CamIds : ParseRaises(cams[c])) =>
        /\ pc \notin {"resolve", "done"}
        /\ voxel_index = 0
        /\ colour = None
        /\ visible_points = <<>>
        /\ file = Unopened
        /\ pc = "error" => err.tag = "ConfigError"
        /\ (pc = "shutdown" /\ collected = 4) => err # None

\* Camera 2 fails after camera 1's projection was stored and while the later
\* workers have finished: the error has propagated all the same.
C8_Witness ==
    /\ pc = "error"
    /\ ParseRaises(cams[2])
    /\ Len(lut) = 1
    /\ futures[3].state = "done" /\ futures[4].state = "done"

----------------------------------------------------------------------------
(* Dimension mismatch *)

\* A mask and its colour image differ in pixel dimensions.
DimensionMismatch ==
    \E n \in 1..4 : silhouette_masks[n].shape # coloured_images[n].shape

ReachesCamera(c, i) ==
    \A d \in 1..(c - 1) :
        InsideMask(d, i) => SeenBy(d, i) /\ InsideColourImage(d, i)

\* Voxel i makes the colour read of line 166 fail.
Trips(i) ==
    \E c \in 1..4 :
        /\ ReachesCamera(c, i)
        /\ SeenBy(c, i)
        /\ ~InsideColourImage(c, i)

----------------------------------------------------------------------------
(* Full visibility *)

AllForeground ==
    \A n \in 1..4 : \A p \in DOMAIN silhouette_masks[n].px :
        silhouette_masks[n].px[p] = 255

AllInBounds ==
    \A c \in 1..4 : \A i \in 0..(Len(voxels) - 1) : InsideMask(c, i)

\* C10: with every mask all foreground and every projection in bounds (and
\* each colour image of its mask's dimensions), every voxel index gives
\* exactly one record, none skipped and none twice, coloured with the mean of
\* the four cameras' pixel colours; the file holds one record per voxel.
C10_FullVisibilityOneRecordPerVoxel ==
    (LutReturned /\ AllForeground /\ AllInBounds /\ ~DimensionMismatch) =>
        /\ pc # "error"
        /\ Len(visible_points) = voxel_index
        /\ \A i \in 1..voxel_index :
              RGB(visible_points[i][4], visible_points[i][5],
                  visible_points[i][6]) = MeanOfFour(i - 1)
        /\ pc = "done" =>
              file.lines = visible_points /\ Len(file.lines) = Len(voxels)

\* A fully visible pass that wrote its file, with differently placed cameras.
C10_Witness ==
    /\ pc = "done"
    /\ AllForeground /\ AllInBounds /\ ~DimensionMismatch
    /\ Len(file.lines) = Len(voxels)
    /\ cams[1] # cams[2]
    /\ file.lines[1][4] # file.lines[Len(file.lines)][4]

====
